---- MODULE Spec2Model ----
(***************************************************************************)
(* Terraform-Agent: the relevance selector (terraform_analyzer.py), the    *)
(* response reconciler (llm.py) and the run that ties them together        *)
(* (terraform_enhancer.py, github_utils.py).                               *)
(*                                                                         *)
(* Python strings are TLA+ strings; Len, SubSeq and \o work on them        *)
(* character by character.  The backtick cannot be written inside a TLA+   *)
(* string, so the character ~ stands for it in every text of this module   *)
(* (no text here contains a real tilde).                                   *)
(***************************************************************************)
EXTENDS Integers, Sequences, FiniteSets, TLC

(***************************************************************************)
(* Bounds of the model.                                                    *)
(***************************************************************************)
\* Largest number of Terraform files the loader finds in one repository.
MaxFiles == 3
\* The same, in the runs that are followed past the selection to their end.
MaxRunFiles == 2
\* Largest number of per-file sections in a backend reply.
MaxSections == 2

(***************************************************************************)
(* Characters and the str methods the code uses.                           *)
(***************************************************************************)
\* s[i]; "" outside the string
Ch(s, i) == IF i >= 1 /\ i <= Len(s) THEN SubSeq(s, i, i) ELSE ""

LowerLetters ==
    {"a","b","c","d","e","f","g","h","i","j","k","l","m",
     "n","o","p","q","r","s","t","u","v","w","x","y","z"}

UpperLetters ==
    {"A","B","C","D","E","F","G","H","I","J","K","L","M",
     "N","O","P","Q","R","S","T","U","V","W","X","Y","Z"}

Digits == {"0","1","2","3","4","5","6","7","8","9"}

\* \w of the re module
WordChars == LowerLetters \cup UpperLetters \cup Digits \cup {"_"}

\* \s of the re module, and the characters str.strip() removes
SpaceChars == {" ", "\t", "\n", "\r", "\f"}

LowerOf ==
    "A" :> "a" @@ "B" :> "b" @@ "C" :> "c" @@ "D" :> "d" @@ "E" :> "e" @@
    "F" :> "f" @@ "G" :> "g" @@ "H" :> "h" @@ "I" :> "i" @@ "J" :> "j" @@
    "K" :> "k" @@ "L" :> "l" @@ "M" :> "m" @@ "N" :> "n" @@ "O" :> "o" @@
    "P" :> "p" @@ "Q" :> "q" @@ "R" :> "r" @@ "S" :> "s" @@ "T" :> "t" @@
    "U" :> "u" @@ "V" :> "v" @@ "W" :> "w" @@ "X" :> "x" @@ "Y" :> "y" @@
    "Z" :> "z"

\* str.lower()
RECURSIVE ToLower(_)
ToLower(s) ==
    IF s = "" THEN ""
    ELSE LET c == Ch(s, 1)
         IN  (IF c \in UpperLetters THEN LowerOf[c] ELSE c)
                 \o ToLower(SubSeq(s, 2, Len(s)))

\* p occurs in s at index i
At(s, i, p) == i >= 1 /\ i + Len(p) - 1 <= Len(s) /\ SubSeq(s, i, i + Len(p) - 1) = p

\* the `in` operator on strings
Contains(s, p) == \E i \in 1..(Len(s) + 1) : At(s, i, p)

\* str.startswith / str.endswith
StartsWith(s, p) == At(s, 1, p)
EndsWith(s, p) == Len(p) <= Len(s) /\ At(s, Len(s) - Len(p) + 1, p)

\* index of the first occurrence of p in s at or after i; 0 when there is none
Find(s, p, i) ==
    LET hits == {j \in i..(Len(s) + 1) : At(s, j, p)}
    IN  IF hits = {} THEN 0 ELSE CHOOSE j \in hits : \A k \in hits : j <= k

\* end (exclusive) of the longest run of characters of cls starting at i:
\* what a greedy cls* consumes
RunEnd(s, i, cls) ==
    LET stops == {j \in i..Len(s) : Ch(s, j) \notin cls}
    IN  IF stops = {} THEN Len(s) + 1
        ELSE CHOOSE j \in stops : \A k \in stops : j <= k

\* str.strip()
Strip(s) ==
    LET a == RunEnd(s, 1, SpaceChars)
        keep == {j \in a..Len(s) : Ch(s, j) \notin SpaceChars}
    IN  IF keep = {} THEN ""
        ELSE SubSeq(s, a, CHOOSE j \in keep : \A k \in keep : j >= k)

(***************************************************************************)
(* os.path, for the relative POSIX paths the analyzer handles: no path     *)
(* here starts with "/" (file paths are relative to the repository, module *)
(* sources start with "./" or "../").                                      *)
(***************************************************************************)
\* index of the last "/" of p; 0 when it has none (str.rfind + 1)
LastSlash(p) ==
    LET at == {j \in 1..Len(p) : Ch(p, j) = "/"}
    IN  IF at = {} THEN 0 ELSE CHOOSE j \in at : \A k \in at : j >= k

\* head.rstrip("/") of posixpath.dirname
RECURSIVE RStripSlash(_)
RStripSlash(p) ==
    IF p # "" /\ Ch(p, Len(p)) = "/" THEN RStripSlash(SubSeq(p, 1, Len(p) - 1)) ELSE p

\* os.path.dirname
Dirname(p) == RStripSlash(SubSeq(p, 1, LastSlash(p)))

\* os.path.join(a, b) for a relative b
PathJoin(a, b) ==
    IF a = "" \/ EndsWith(a, "/") THEN a \o b ELSE a \o "/" \o b

\* str.split("/")
RECURSIVE SplitSlash(_)
SplitSlash(p) ==
    LET j == Find(p, "/", 1)
    IN  IF j = 0 THEN <<p>>
        ELSE <<SubSeq(p, 1, j - 1)>> \o SplitSlash(SubSeq(p, j + 1, Len(p)))

\* the loop of posixpath.normpath over the components, new_comps so far in acc
RECURSIVE NormComps(_, _)
NormComps(comps, acc) ==
    IF comps = <<>> THEN acc
    ELSE LET c == Head(comps)
             rest == Tail(comps)
         IN  IF c \in {"", "."} THEN NormComps(rest, acc)
             ELSE IF c # ".." \/ acc = <<>> \/ acc[Len(acc)] = ".."
                  THEN NormComps(rest, Append(acc, c))
                  ELSE NormComps(rest, SubSeq(acc, 1, Len(acc) - 1))

\* "/".join(comps)
RECURSIVE JoinSlash(_)
JoinSlash(comps) ==
    IF comps = <<>> THEN ""
    ELSE IF Len(comps) = 1 THEN comps[1]
    ELSE comps[1] \o "/" \o JoinSlash(Tail(comps))

\* os.path.normpath
Normpath(p) ==
    LET q == JoinSlash(NormComps(SplitSlash(p), <<>>))
    IN  IF q = "" THEN "." ELSE q

(***************************************************************************)
(* The regular expressions of terraform_analyzer.py.                       *)
(***************************************************************************)
Quotes == {"\"", "'"}

\* [\w-]
ModuleNameChars == WordChars \cup {"-"}

\* [\w\.\/-]
SourceChars == WordChars \cup {".", "/", "-"}

\* [a-zA-Z0-9_-]
VarNameChars == LowerLetters \cup UpperLetters \cup Digits \cup {"_", "-"}

NoMatch == [ok |-> FALSE, end |-> 0, group |-> ""]

\* source\s*=\s*["']([\w\.\/-]+)["'] matched at index k: every repetition is
\* followed by a character outside its class, so each has one way to match
SourceAttrAt(s, k) ==
    IF ~At(s, k, "source") THEN NoMatch
    ELSE LET a == RunEnd(s, k + 6, SpaceChars)
             b == RunEnd(s, a + 1, SpaceChars)
             c == RunEnd(s, b + 1, SourceChars)
         IN  IF /\ Ch(s, a) = "="
                /\ Ch(s, b) \in Quotes
                /\ c > b + 1
                /\ Ch(s, c) \in Quotes
             THEN [ok |-> TRUE, end |-> c + 1, group |-> SubSeq(s, b + 1, c - 1)]
             ELSE NoMatch

\* module_pattern matched at index i.  [^}]* is greedy: of the places up to
\* the first "}" where the rest matches, the last one is taken.
ModuleAt(s, i) ==
    IF ~At(s, i, "module") THEN NoMatch
    ELSE LET j2 == RunEnd(s, i + 6, SpaceChars)
             j3 == RunEnd(s, j2 + 1, ModuleNameChars)
             j4 == RunEnd(s, j3 + 1, SpaceChars)
             close == Find(s, "}", j4 + 1)
             last == IF close = 0 THEN Len(s) + 1 ELSE close
             at == {k \in (j4 + 1)..last : SourceAttrAt(s, k).ok}
         IN  IF /\ j2 > i + 6
                /\ Ch(s, j2) \in Quotes
                /\ j3 > j2 + 1
                /\ Ch(s, j3) \in Quotes
                /\ Ch(s, j4) = "{"
                /\ at # {}
             THEN SourceAttrAt(s, CHOOSE k \in at : \A m \in at : k >= m)
             ELSE NoMatch

\* re.finditer(module_pattern, content) from index pos on: group(2) of each match
RECURSIVE ModuleSourcesFrom(_, _)
ModuleSourcesFrom(s, pos) ==
    LET i == Find(s, "module", pos)
    IN  IF i = 0 THEN <<>>
        ELSE LET m == ModuleAt(s, i)
             IN  IF m.ok THEN <<m.group>> \o ModuleSourcesFrom(s, m.end)
                 ELSE ModuleSourcesFrom(s, i + 1)

\* _extract_module_sources
ExtractModuleSources(content) == ModuleSourcesFrom(content, 1)

\* re.findall(var_pattern, content) from index pos on
RECURSIVE VarMatchesFrom(_, _)
VarMatchesFrom(s, pos) ==
    LET i == Find(s, "var.", pos)
    IN  IF i = 0 THEN <<>>
        ELSE LET e == RunEnd(s, i + 4, VarNameChars)
             IN  IF e > i + 4
                 THEN <<SubSeq(s, i + 4, e - 1)>> \o VarMatchesFrom(s, e)
                 ELSE VarMatchesFrom(s, i + 1)

Range(seq) == {seq[i] : i \in 1..Len(seq)}

\* _extract_variable_references: set(matches); the order of list(set(..))
\* is left to the caller
ExtractVariableReferences(content) == Range(VarMatchesFrom(content, 1))

\* re.findall(r"\b\w{3,}\b", s) from index pos on: the maximal runs of word
\* characters that are at least MinWordLen long
MinWordLen == 3

RECURSIVE WordsFrom(_, _)
WordsFrom(s, pos) ==
    LET starts == {j \in pos..Len(s) : Ch(s, j) \in WordChars}
    IN  IF starts = {} THEN <<>>
        ELSE LET i == CHOOSE j \in starts : \A k \in starts : j <= k
                 e == RunEnd(s, i, WordChars)
             IN  IF e - i >= MinWordLen
                 THEN <<SubSeq(s, i, e - 1)>> \o WordsFrom(s, e)
                 ELSE WordsFrom(s, e)

terraform_keywords ==
    << "vpc", "subnet", "security_group", "nacl", "sg", "security", "network",
       "flow_log", "encryption", "firewall", "route", "gateway", "iam",
       "policy", "ec2", "rds", "lambda", "s3", "kms", "ssl", "tls", "https",
       "alb", "elb", "load_balancer", "autoscaling", "cloudwatch", "logs",
       "cloudtrail", "monitoring", "alerts", "backup", "storage" >>

stop_words ==
    { "update", "the", "by", "adding", "and", "or", "with", "for", "to", "in",
      "on", "a", "an", "this", "that", "these", "those", "our", "your", "my",
      "mine", "we", "need", "want", "should", "will" }

\* _extract_keywords_from_prompt
ExtractKeywordsFromPrompt(prompt) ==
    LET prompt_lower == ToLower(prompt)
        found == SelectSeq(terraform_keywords, LAMBDA k : Contains(prompt_lower, k))
    IN  IF found # <<>> THEN found
        ELSE SelectSeq(WordsFrom(prompt_lower, 1), LAMBDA w : w \notin stop_words)

(***************************************************************************)
(* Python dicts whose insertion order the code reads (file_contents) are   *)
(* sequences of <<key, value>> pairs with distinct keys.                   *)
(***************************************************************************)
DictKeys(d) == [i \in 1..Len(d) |-> d[i][1]]
KeySet(d) == {d[i][1] : i \in 1..Len(d)}
DictGet(d, k) == d[CHOOSE i \in 1..Len(d) : d[i][1] = k][2]
\* the dict as a mapping, order forgotten
AsMap(d) == [k \in KeySet(d) |-> DictGet(d, k)]

\* seqs[1] \o seqs[2] \o ...
RECURSIVE Flatten(_)
Flatten(seqs) == IF seqs = <<>> THEN <<>> ELSE Head(seqs) \o Flatten(Tail(seqs))

\* the orders list(set(..)) may give the elements of S
Perms(S) ==
    {f \in [1..Cardinality(S) -> S] : \A i, j \in 1..Cardinality(S) : f[i] = f[j] => i = j}

(***************************************************************************)
(* The inputs of a run.                                                    *)
(***************************************************************************)
\* The *.tf files a cloned repository may hold: <<relative path, content>>.
Pool ==
    << <<"app/main.tf",
         "module \"net\" {\n  source = \"../network\"\n}\n# encryption\nr = var.region\nz = var.zone\n">>,
       <<"network/vpc.tf",
         "resource \"aws_vpc\" \"v\" {\n  c = var.cidr\n  r = var.region\n}\nvariable \"cidr\" {}\n">>,
       <<"network/x.tf", "locals {\n  n = 1\n}\n">>,
       <<"variables.tf",
         "variable \"region\" {}\nvariable \"zone\" {\n  default = var.cidr\n}\n">>,
       <<"outputs.tf", "output \"id\" {\n  value = 1\n}\n">>,
       <<"misc/sub.tf", "# Subnet ids\ndata \"foo\" \"y\" {\n  r = var.region\n}\n">> >>

\* The readable *.tf files of a clone: up to max files of the pool, in the
\* order Path.glob delivers them (any order).
CorporaUpTo(max) ==
    LET n == Len(Pool)
        picks == UNION {[1..k -> 1..n] : k \in 0..max}
    IN  { [i \in DOMAIN f |-> Pool[f[i]]] :
            f \in {g \in picks : \A i, j \in DOMAIN g : g[i] = g[j] => i = j} }

Corpora == CorporaUpTo(MaxFiles)

\* the repositories of the runs followed to their end
RunCorpora == CorporaUpTo(MaxRunFiles)

Prompts == {"Harden the VPC", "add encryption", "rename foo", "update the"}

(***************************************************************************)
(* TerraformAnalyzer._build_dependency_graph                               *)
(***************************************************************************)
\* lines 50-63 without the normpath of line 53
ModuleSourceEdgesUnnormalized(fc, file_path, source) ==
    IF StartsWith(source, "./") \/ StartsWith(source, "../")
    THEN LET source_dir == PathJoin(Dirname(file_path), source)
         IN  SelectSeq(DictKeys(fc), LAMBDA other_file : StartsWith(other_file, source_dir))
    ELSE <<>>

\* lines 50-63: the edges one module source adds to file_path
ModuleSourceEdges(fc, file_path, source) ==
    IF StartsWith(source, "./") \/ StartsWith(source, "../")
    THEN LET source_dir == Normpath(PathJoin(Dirname(file_path), source))
         IN  SelectSeq(DictKeys(fc), LAMBDA other_file : StartsWith(other_file, source_dir))
    ELSE <<>>

\* lines 66-72: the edges one variable reference adds
VarRefEdges(fc, var_name) ==
    LET decl == "variable \"" \o var_name \o "\""
        hits == SelectSeq(fc, LAMBDA kv : Contains(kv[2], decl))
    IN  DictKeys(hits)

\* lines 42-72 for one file; var_refs is list(set(matches)) in the order the
\* set happened to give
FileEdges(fc, file_path, content, var_refs) ==
    LET module_sources == ExtractModuleSources(content)
    IN  Flatten([i \in 1..Len(module_sources) |->
                    ModuleSourceEdges(fc, file_path, module_sources[i])])
        \o Flatten([i \in 1..Len(var_refs) |-> VarRefEdges(fc, var_refs[i])])

\* per file of fc, in its order, one order of its var_refs
RECURSIVE VarRefOrders(_)
VarRefOrders(fc) ==
    IF fc = <<>> THEN {<<>>}
    ELSE LET first == Perms(ExtractVariableReferences(Head(fc)[2]))
             rest == VarRefOrders(Tail(fc))
         IN  {<<o>> \o r : o \in first, r \in rest}

\* _build_dependency_graph: path -> list of paths, duplicates kept
BuildDependencyGraph(fc, order) ==
    LET edges == [i \in 1..Len(fc) |-> FileEdges(fc, fc[i][1], fc[i][2], order[i])]
    IN  [k \in KeySet(fc) |-> edges[CHOOSE i \in 1..Len(fc) : fc[i][1] = k]]

(***************************************************************************)
(* TerraformAnalyzer.find_relevant_files, lines 93-118                     *)
(***************************************************************************)
vpc_terms == <<"vpc", "network">>
vpc_keywords == <<"vpc", "subnet", "cidr", "network", "route", "gateway">>

\* any(keyword in content_lower ...) or any(keyword in file_path.lower() ...)
KeywordHit(kv, keywords) ==
    LET content_lower == ToLower(kv[2])
        path_lower == ToLower(kv[1])
    IN  \/ \E i \in 1..Len(keywords) : Contains(content_lower, keywords[i])
        \/ \E i \in 1..Len(keywords) : Contains(path_lower, keywords[i])

\* lines 99-106: the first pass, in file_contents order
DirectMatch(fc, p) ==
    LET keywords == ExtractKeywordsFromPrompt(p)
    IN  DictKeys(SelectSeq(fc, LAMBDA kv : KeywordHit(kv, keywords)))

\* line 109 without the lower() of the prompt
MentionsVpcCaseSensitive(p) == \E i \in 1..Len(vpc_terms) : Contains(p, vpc_terms[i])

\* line 109
MentionsVpc(p) == \E i \in 1..Len(vpc_terms) : Contains(ToLower(p), vpc_terms[i])

\* lines 109-118: the VPC-related files not yet selected
VpcMatch(fc, p, already) ==
    IF MentionsVpc(p)
    THEN DictKeys(SelectSeq(fc, LAMBDA kv : kv[1] \notin already /\ KeywordHit(kv, vpc_keywords)))
    ELSE <<>>

\* line 133
MinRelevant == 3

\* lines 135-137
IsImportant(file_path) ==
    EndsWith(file_path, "main.tf") \/ EndsWith(file_path, "variables.tf")
        \/ EndsWith(file_path, "outputs.tf")

\* lines 133-139 with the test of line 133 off by one
ImportantFilesBelowTwo(fc, rel) ==
    IF Cardinality(rel) < MinRelevant - 1
    THEN {k \in KeySet(fc) : k \notin rel /\ IsImportant(k)}
    ELSE {}

\* lines 133-139: the files the minimum-coverage fallback adds to rel
ImportantFiles(fc, rel) ==
    IF Cardinality(rel) < MinRelevant
    THEN {k \in KeySet(fc) : k \notin rel /\ IsImportant(k)}
    ELSE {}

\* dependency_graph.get(file_path, [])
GraphGet(g, file_path) == IF file_path \in DOMAIN g THEN g[file_path] ELSE <<>>

(***************************************************************************)
(* json.loads, as far as the texts of this module go: objects, arrays,     *)
(* strings with the escapes \" \\ \/ \n \t \r \f, numbers and the literals. *)
(* A value is a record: t its type, s its text (decoded for a string) and  *)
(* items its members: <<key, value>> pairs of an object in insertion        *)
(* order, the elements of an array.                                        *)
(***************************************************************************)
\* WHITESPACE of json.decoder
JsonSpace == {" ", "\t", "\n", "\r"}

\* characters below 0x20, which a strict JSON string may not hold
ControlChars == {"\t", "\n", "\r", "\f"}

JsonEscapes ==
    "\"" :> "\"" @@ "\\" :> "\\" @@ "/" :> "/" @@ "n" :> "\n" @@ "t" :> "\t"
        @@ "r" :> "\r" @@ "f" :> "\f"

JsonValue(type, text, members) == [t |-> type, s |-> text, items |-> members]
EmptyDict == JsonValue("obj", "", <<>>)
JsonFail == [ok |-> FALSE, end |-> 0, val |-> JsonValue("none", "", <<>>)]
JsonOk(v, e) == [ok |-> TRUE, end |-> e, val |-> v]

\* d[k] = v on a dict kept as pairs: a key already there keeps its place
DictPut(d, k, v) ==
    IF \E i \in 1..Len(d) : d[i][1] = k
    THEN [i \in 1..Len(d) |-> IF d[i][1] = k THEN <<k, v>> ELSE d[i]]
    ELSE Append(d, <<k, v>>)

\* py_scanstring from index i, just after the opening quote, acc decoded so far
RECURSIVE ScanString(_, _, _)
ScanString(s, i, acc) ==
    LET c == Ch(s, i)
    IN  IF c = "" THEN JsonFail
        ELSE IF c = "\"" THEN JsonOk(JsonValue("str", acc, <<>>), i + 1)
        ELSE IF c = "\\"
             THEN IF Ch(s, i + 1) \in DOMAIN JsonEscapes
                  THEN ScanString(s, i + 2, acc \o JsonEscapes[Ch(s, i + 1)])
                  ELSE JsonFail
        ELSE IF c \in ControlChars THEN JsonFail
        ELSE ScanString(s, i + 1, acc \o c)

\* NUMBER_RE of json.scanner matched at i: (-?(?:0|[1-9]\d*))(\.\d+)?([eE][-+]?\d+)?
ScanNumber(s, i) ==
    LET d0 == IF Ch(s, i) = "-" THEN i + 1 ELSE i
        intEnd == IF Ch(s, d0) = "0" THEN d0 + 1 ELSE RunEnd(s, d0, Digits)
        fracRun == RunEnd(s, intEnd + 1, Digits)
        fracEnd == IF Ch(s, intEnd) = "." /\ fracRun > intEnd + 1 THEN fracRun ELSE intEnd
        e0 == IF Ch(s, fracEnd + 1) \in {"-", "+"} THEN fracEnd + 2 ELSE fracEnd + 1
        expRun == RunEnd(s, e0, Digits)
        expEnd == IF Ch(s, fracEnd) \in {"e", "E"} /\ expRun > e0 THEN expRun ELSE fracEnd
    IN  IF Ch(s, d0) \in Digits
        THEN JsonOk(JsonValue("num", SubSeq(s, i, expEnd - 1), <<>>), expEnd)
        ELSE JsonFail

JsonLiterals == <<"null", "true", "false", "NaN", "Infinity", "-Infinity">>

\* the literals scan_once knows, matched at i
ScanLiteral(s, i) ==
    LET hits == {n \in 1..Len(JsonLiterals) : At(s, i, JsonLiterals[n])}
    IN  IF hits = {} THEN JsonFail
        ELSE LET lit == JsonLiterals[CHOOSE n \in hits : TRUE]
             IN  JsonOk(JsonValue("lit", lit, <<>>), i + Len(lit))

\* the first of two scans that matches
FirstOk(a, b) == IF a.ok THEN a ELSE b

RECURSIVE ScanOnce(_, _), ParseMembers(_, _, _), NextMember(_, _, _, _),
          ParseElements(_, _, _), NextElement(_, _, _)

\* scan_once of json.scanner at index i
ScanOnce(s, i) ==
    LET c == Ch(s, i)
        j == RunEnd(s, i + 1, JsonSpace)
    IN  IF c = "\"" THEN ScanString(s, i + 1, "")
        ELSE IF c = "{"
             THEN IF Ch(s, j) = "}" THEN JsonOk(JsonValue("obj", "", <<>>), j + 1)
                  ELSE IF Ch(s, j) = "\"" THEN ParseMembers(s, j, <<>>)
                  ELSE JsonFail
        ELSE IF c = "["
             THEN IF Ch(s, j) = "]" THEN JsonOk(JsonValue("arr", "", <<>>), j + 1)
                  ELSE ParseElements(s, j, <<>>)
        ELSE FirstOk(ScanNumber(s, i), ScanLiteral(s, i))

\* the loop of JSONObject from the opening quote of a key at j: the key and
\* the colon, then the value
ParseMembers(s, j, pairs) ==
    LET key == ScanString(s, j + 1, "")
        a == RunEnd(s, key.end, JsonSpace)
    IN  IF ~key.ok \/ Ch(s, a) # ":" THEN JsonFail
        ELSE NextMember(s, pairs, key.val.s, ScanOnce(s, RunEnd(s, a + 1, JsonSpace)))

\* the loop of JSONObject after the value v of the key k
NextMember(s, pairs, k, v) ==
    LET c == RunEnd(s, v.end, JsonSpace)
        d == RunEnd(s, c + 1, JsonSpace)
    IN  IF ~v.ok THEN JsonFail
        ELSE IF Ch(s, c) = "}"
             THEN JsonOk(JsonValue("obj", "", DictPut(pairs, k, v.val)), c + 1)
        ELSE IF Ch(s, c) = "," /\ Ch(s, d) = "\""
             THEN ParseMembers(s, d, DictPut(pairs, k, v.val))
        ELSE JsonFail

\* the loop of JSONArray from the first character of an element at j
ParseElements(s, j, elems) == NextElement(s, elems, ScanOnce(s, j))

\* the loop of JSONArray after the element v
NextElement(s, elems, v) ==
    LET c == RunEnd(s, v.end, JsonSpace)
    IN  IF ~v.ok THEN JsonFail
        ELSE IF Ch(s, c) = "]" THEN JsonOk(JsonValue("arr", "", Append(elems, v.val)), c + 1)
        ELSE IF Ch(s, c) = ","
             THEN ParseElements(s, RunEnd(s, c + 1, JsonSpace), Append(elems, v.val))
        ELSE JsonFail

\* the end of JSONDecoder.decode: v is the document when only white space follows it
WholeDocument(s, v) ==
    IF v.ok /\ RunEnd(s, v.end, JsonSpace) = Len(s) + 1 THEN v ELSE JsonFail

\* json.loads(s): ok is FALSE where it raises JSONDecodeError
JsonLoads(s) == WholeDocument(s, ScanOnce(s, RunEnd(s, 1, JsonSpace)))

\* whether len(value) is defined; it raises TypeError on the others
HasLen(v) == v.t \in {"obj", "arr", "str"}

(***************************************************************************)
(* The regular expressions of llm.py.                                      *)
(***************************************************************************)
Fence == "~~~"
JsonFence == "~~~json"

\* re.search(r"```json\s*([\s\S]*?)\s*```", response): group(1) when found.
\* The first \s* takes all the white space after the tag; the lazy group
\* then stops at the first place from which white space leads to a fence.
FenceSearch(response) ==
    LET i == Find(response, JsonFence, 1)
        a == RunEnd(response, i + Len(JsonFence), SpaceChars)
        close == Find(response, Fence, a)
        ends == {e \in a..close : RunEnd(response, e, SpaceChars) = close}
    IN  IF i = 0 \/ close = 0 THEN NoMatch
        ELSE [ok |-> TRUE, end |-> close + Len(Fence),
              group |-> SubSeq(response, a, (CHOOSE e \in ends : \A x \in ends : e <= x) - 1)]

\* [\w\./\\-]
PathChars == WordChars \cup {".", "/", "\\", "-"}

\* (?=---\s*File:|$) at index e; $ also matches before a final newline
SectionEndsAt(s, e) ==
    \/ At(s, e, "---") /\ At(s, RunEnd(s, e + 3, SpaceChars), "File:")
    \/ e = Len(s) + 1
    \/ e = Len(s) /\ Ch(s, e) = "\n"

\* file_pattern matched at index i: group 1 is the longest run of path
\* characters after which white space leads to "---"; group 2 is lazy
SectionAt(s, i) ==
    LET a == RunEnd(s, i + 3, SpaceChars)
        b == RunEnd(s, a + 5, SpaceChars)
        c == RunEnd(s, b, PathChars)
        pathEnds == {g \in (b + 1)..c : At(s, RunEnd(s, g, SpaceChars), "---")}
        g == CHOOSE x \in pathEnds : \A y \in pathEnds : x >= y
        d == RunEnd(s, RunEnd(s, g, SpaceChars) + 3, SpaceChars)
        e == CHOOSE x \in d..(Len(s) + 1) :
                /\ SectionEndsAt(s, x)
                /\ \A y \in d..(x - 1) : ~SectionEndsAt(s, y)
    IN  IF At(s, i, "---") /\ At(s, a, "File:") /\ pathEnds # {}
        THEN [ok |-> TRUE, end |-> e, path |-> SubSeq(s, b, g - 1),
              content |-> SubSeq(s, d, e - 1)]
        ELSE [ok |-> FALSE, end |-> 0, path |-> "", content |-> ""]

\* the loop of lines 165-168 over re.finditer(file_pattern, text) from pos on
RECURSIVE SectionsFrom(_, _, _)
SectionsFrom(s, pos, files) ==
    LET i == Find(s, "---", pos)
    IN  IF i = 0 THEN files
        ELSE LET m == SectionAt(s, i)
             IN  IF m.ok
                 THEN SectionsFrom(s, m.end,
                        DictPut(files, Strip(m.path), JsonValue("str", Strip(m.content), <<>>)))
                 ELSE SectionsFrom(s, i + 1, files)

\* _extract_files_manually
ExtractFilesManually(text) == JsonValue("obj", "", SectionsFrom(text, 1, <<>>))

VARIABLES
    pc,                 \* where the run is
    prompt,             \* the prompt argument of enhance_terraform_code
    repo_files,         \* the readable *.tf files of the repository at repo_url
    temp_dir,           \* GitHubRepo.temp_dir on disk: "none", "exists", "deleted"
    failure,            \* the step whose exception ended the run; "none" so far
    file_contents,      \* TerraformAnalyzer.file_contents
    dependency_graph,   \* TerraformAnalyzer.dependency_graph
    relevant_files,     \* find_relevant_files: relevant_files, path -> content
    keys,               \* list(relevant_files.keys()) of line 122
    ki,                 \* index in keys of the loop of line 122
    dependency_files,   \* find_relevant_files: dependency_files, path -> content
    stack,              \* the frames of _find_all_dependencies, innermost last
    visited,            \* the visited set shared by one traversal
    expanded,           \* per file: how often this traversal entered its loop
    files_dict,         \* the files_dict argument of update_terraform_code
    api,                \* _call_*_api: "none", "replied", "import_error", "exception"
    response,           \* the raw text _extract_modified_files is called with
    json_match,         \* json_match of line 137
    tiers,              \* the parsing tiers _extract_modified_files has tried
    rc_result,          \* what _extract_modified_files returned
    modified_files,     \* what update_terraform_code returned
    saved               \* what _save_results has written under output_dir

runVars == <<prompt, repo_files>>
analyzerVars == <<file_contents, dependency_graph>>
selectVars == <<relevant_files, keys, ki, dependency_files>>
travVars == <<stack, visited, expanded>>
rcVars == <<response, json_match, tiers, rc_result>>
llmVars == <<files_dict, api, modified_files, saved>>
vars == <<pc, runVars, temp_dir, failure, analyzerVars, selectVars, travVars, rcVars, llmVars>>

NoCounts == [k \in {} |-> 0]
NoFiles == [k \in {} |-> ""]
NoValue == JsonValue("none", "", <<>>)

\* fc restricted to the paths of S, as relevant_files[file_path] = content builds it
FilesOf(fc, S) == [k \in S |-> DictGet(fc, k)]

\* TerraformEnhancer constructed, enhance_terraform_code not yet called
Init ==
    /\ pc = "idle"
    /\ prompt = ""
    /\ repo_files = <<>>
    /\ temp_dir = "none"
    /\ failure = "none"
    /\ file_contents = <<>>
    /\ dependency_graph = <<>>
    /\ relevant_files = NoFiles
    /\ keys = <<>>
    /\ ki = 1
    /\ dependency_files = NoFiles
    /\ stack = <<>>
    /\ visited = {}
    /\ expanded = NoCounts
    /\ files_dict = NoFiles
    /\ api = "none"
    /\ response = ""
    /\ json_match = NoMatch
    /\ tiers = <<>>
    /\ rc_result = NoValue
    /\ modified_files = NoValue
    /\ saved = NoValue

\* enhance_terraform_code(repo_url, prompt) is called: the prompt, and the
\* repository repo_url names, one of repos
Enhance(repos) ==
    /\ pc = "idle"
    /\ prompt' \in Prompts
    /\ repo_files' \in repos
    /\ pc' = "start"
    /\ UNCHANGED <<temp_dir, failure, analyzerVars, selectVars, travVars, rcVars, llmVars>>

\* GitHubRepo.clone succeeds
CloneOk ==
    /\ pc = "start"
    /\ temp_dir' = "exists"
    /\ pc' = "load"
    /\ UNCHANGED <<runVars, failure, analyzerVars, selectVars, travVars, rcVars, llmVars>>

\* GitHubRepo.clone fails after mkdtemp (clone_from raises, or the nested
\* directory is missing): lines 115-118 clean up and raise again
CloneFail ==
    /\ pc = "start"
    /\ temp_dir' = "deleted"
    /\ failure' = "clone"
    /\ pc' = "raised"
    /\ UNCHANGED <<runVars, analyzerVars, selectVars, travVars, rcVars, llmVars>>

\* TerraformAnalyzer.__init__: _load_terraform_files, which ends by calling
\* _build_dependency_graph
Load ==
    /\ pc = "load"
    /\ file_contents' = repo_files
    /\ \E order \in VarRefOrders(repo_files) :
          dependency_graph' = BuildDependencyGraph(repo_files, order)
    /\ pc' = "match"
    /\ UNCHANGED <<runVars, temp_dir, failure, selectVars, travVars, rcVars, llmVars>>

\* find_relevant_files, lines 93-122: keywords, first pass, VPC pass, and the
\* list of keys the second pass walks
MatchPass ==
    /\ pc = "match"
    /\ LET direct == DirectMatch(file_contents, prompt)
           vpc == VpcMatch(file_contents, prompt, Range(direct))
       IN  /\ relevant_files' = FilesOf(file_contents, Range(direct) \cup Range(vpc))
           /\ keys' = direct \o vpc
    /\ ki' = 1
    /\ dependency_files' = NoFiles
    /\ pc' = "deps"
    /\ UNCHANGED <<runVars, temp_dir, failure, analyzerVars, travVars, rcVars, llmVars>>

\* line 123: _find_all_dependencies(file_path) with a fresh visited set;
\* lines 233-240 of the outermost call
StartTraversal ==
    /\ pc = "deps"
    /\ ki <= Len(keys)
    /\ visited' = {keys[ki]}
    /\ stack' = <<[file_path |-> keys[ki], i |-> 1, dependencies |-> {}]>>
    /\ expanded' = (keys[ki] :> 1)
    /\ pc' = "traverse"
    /\ UNCHANGED <<runVars, temp_dir, failure, analyzerVars, selectVars, rcVars, llmVars>>

Top == stack[Len(stack)]
TopEdges == GraphGet(dependency_graph, Top.file_path)

\* the check of line 236 left out
NeverVisited(dep, seen) == FALSE

\* whether the recursive call on dep returns at line 237
AlreadyVisited(dep, seen) == dep \in seen

\* lines 242-244 when the recursive call returns [] at once (line 237).
\* dependencies is a list in the code, read only through set(): a set here.
TraverseSkip ==
    /\ pc = "traverse"
    /\ Top.i <= Len(TopEdges)
    /\ AlreadyVisited(TopEdges[Top.i], visited)
    /\ stack' = [stack EXCEPT ![Len(stack)] =
                    [@ EXCEPT !.i = @ + 1,
                              !.dependencies = @ \cup {TopEdges[Top.i]}]]
    /\ UNCHANGED <<pc, runVars, temp_dir, failure, analyzerVars, selectVars, visited,
                   expanded, rcVars, llmVars>>

\* lines 242-244 when the recursive call goes on: lines 239-240 of the callee
TraverseDescend ==
    /\ pc = "traverse"
    /\ Top.i <= Len(TopEdges)
    /\ ~AlreadyVisited(TopEdges[Top.i], visited)
    /\ LET dep == TopEdges[Top.i]
       IN  /\ visited' = visited \cup {dep}
           /\ expanded' = (dep :> (IF dep \in DOMAIN expanded THEN expanded[dep] + 1 ELSE 1))
                              @@ expanded
           /\ stack' = Append([stack EXCEPT ![Len(stack)].dependencies = @ \cup {dep}],
                              [file_path |-> dep, i |-> 1, dependencies |-> {}])
    /\ UNCHANGED <<pc, runVars, temp_dir, failure, analyzerVars, selectVars, rcVars, llmVars>>

\* line 244 with the result of the recursive call thrown away
TraverseReturnDropped ==
    /\ pc = "traverse"
    /\ Len(stack) > 1
    /\ Top.i > Len(TopEdges)
    /\ stack' = [SubSeq(stack, 1, Len(stack) - 1) EXCEPT ![Len(stack) - 1].i = @ + 1]
    /\ UNCHANGED <<pc, runVars, temp_dir, failure, analyzerVars, selectVars, visited,
                   expanded, rcVars, llmVars>>

\* line 246 of an inner call, and the extend of line 244 in its caller
TraverseReturn ==
    /\ pc = "traverse"
    /\ Len(stack) > 1
    /\ Top.i > Len(TopEdges)
    /\ stack' = [SubSeq(stack, 1, Len(stack) - 1) EXCEPT ![Len(stack) - 1] =
                    [@ EXCEPT !.i = @ + 1,
                              !.dependencies = @ \cup Top.dependencies]]
    /\ UNCHANGED <<pc, runVars, temp_dir, failure, analyzerVars, selectVars, visited,
                   expanded, rcVars, llmVars>>

\* lines 124-127: which of the dependencies found go to dependency_files
NewDependencies(deps, rel, fc) ==
    {dep \in deps : dep \notin DOMAIN rel /\ dep \in KeySet(fc)}

\* line 246 of the outermost call, then lines 124-127
TraversalDone ==
    /\ pc = "traverse"
    /\ Len(stack) = 1
    /\ Top.i > Len(TopEdges)
    /\ dependency_files' =
          FilesOf(file_contents,
                  NewDependencies(Top.dependencies, relevant_files, file_contents))
             @@ dependency_files
    /\ ki' = ki + 1
    /\ stack' = <<>>
    /\ pc' = "deps"
    /\ UNCHANGED <<runVars, temp_dir, failure, analyzerVars, relevant_files, keys, visited,
                   expanded, rcVars, llmVars>>

\* lines 129-142: combine, minimum-coverage fallback, return
FinishSelection ==
    /\ pc = "deps"
    /\ ki > Len(keys)
    /\ LET combined == dependency_files @@ relevant_files
       IN  relevant_files' =
              FilesOf(file_contents, ImportantFiles(file_contents, DOMAIN combined))
                 @@ combined
    /\ pc' = "selected"
    /\ UNCHANGED <<runVars, temp_dir, failure, analyzerVars, keys, ki, dependency_files,
                   travVars, rcVars, llmVars>>

(***************************************************************************)
(* TerraformEnhancer.enhance_terraform_code, lines 46-69, and LLMClient    *)
(***************************************************************************)
\* lines 46-48 with the fallback to the whole corpus left out
SendWithoutFallback ==
    /\ pc = "selected"
    /\ files_dict' = relevant_files
    /\ pc' = "api"
    /\ UNCHANGED <<runVars, temp_dir, failure, analyzerVars, selectVars, travVars, rcVars,
                   api, modified_files, saved>>

\* lines 46-54: the files handed to update_terraform_code, which builds the
\* messages (llm.py lines 30-75) and calls the provider's _call_*_api
SendToLLM ==
    /\ pc = "selected"
    /\ files_dict' = IF DOMAIN relevant_files = {} THEN AsMap(file_contents)
                     ELSE relevant_files
    /\ pc' = "api"
    /\ UNCHANGED <<runVars, temp_dir, failure, analyzerVars, selectVars, travVars, rcVars,
                   api, modified_files, saved>>

\* llm.py lines 96-100, 124-128: the client library cannot be imported
ApiImportError ==
    /\ pc = "api"
    /\ api' = "import_error"
    /\ modified_files' = EmptyDict
    /\ pc' = "save"
    /\ UNCHANGED <<runVars, temp_dir, failure, analyzerVars, selectVars, travVars, rcVars,
                   files_dict, saved>>

\* the except of lines 101-103 left out: the exception leaves update_terraform_code
ApiErrorPropagates ==
    /\ pc = "api"
    /\ api' = "exception"
    /\ failure' = "backend"
    /\ pc' = "raised"
    /\ UNCHANGED <<runVars, temp_dir, analyzerVars, selectVars, travVars, rcVars,
                   files_dict, modified_files, saved>>

\* llm.py lines 101-103, 129-131: the call raises (authentication, quota,
\* network, a reply without text)
ApiError ==
    /\ pc = "api"
    /\ api' = "exception"
    /\ modified_files' = EmptyDict
    /\ pc' = "save"
    /\ UNCHANGED <<runVars, temp_dir, failure, analyzerVars, selectVars, travVars, rcVars,
                   files_dict, saved>>

\* llm.py lines 82-94, 112-122: the backend replies with the text reply,
\* and _extract_modified_files is called with it
ApiReply(replies) ==
    /\ pc = "api"
    /\ api' = "replied"
    /\ response' \in replies
    /\ pc' = "rc_search"
    /\ UNCHANGED <<runVars, temp_dir, failure, analyzerVars, selectVars, travVars,
                   json_match, tiers, rc_result, files_dict, modified_files, saved>>

\* _extract_modified_files called on its own with the text of one of texts
Reconcile(texts) ==
    /\ pc = "idle"
    /\ response' \in texts
    /\ pc' = "rc_search"
    /\ UNCHANGED <<runVars, temp_dir, failure, analyzerVars, selectVars, travVars,
                   json_match, tiers, rc_result, llmVars>>

\* _extract_modified_files, lines 137-138
SearchFence ==
    /\ pc = "rc_search"
    /\ \E m \in {FenceSearch(response)} :
          json_match' = m /\ pc' = IF m.ok THEN "rc_block" ELSE "rc_whole"
    /\ tiers' = <<"fence">>
    /\ UNCHANGED <<runVars, temp_dir, failure, analyzerVars, selectVars, travVars,
                   response, rc_result, llmVars>>

\* lines 153-156 returning {} at once, without _extract_files_manually
AfterLoadsWithoutManual(v) ==
    IF ~v.ok THEN [next |-> "rc_returned", result |-> EmptyDict]
    ELSE IF ~HasLen(v.val) THEN [next |-> "rc_raised", result |-> NoValue]
    ELSE [next |-> "rc_returned", result |-> v.val]

\* lines 140-144 and 147-151 after v = json.loads(...): JSONDecodeError goes on
\* to the manual tier, len() in the log message raises TypeError, or v returns
AfterLoads(v) ==
    IF ~v.ok THEN [next |-> "rc_manual", result |-> NoValue]
    ELSE IF ~HasLen(v.val) THEN [next |-> "rc_raised", result |-> NoValue]
    ELSE [next |-> "rc_returned", result |-> v.val]

\* lines 139-144: the fenced block is parsed; JSONDecodeError goes to line 153,
\* the TypeError of len() leaves the function
ParseBlock ==
    /\ pc = "rc_block"
    /\ tiers' = Append(tiers, "block")
    /\ \E r \in {AfterLoads(JsonLoads(json_match.group))} :
          pc' = r.next /\ rc_result' = r.result
    /\ UNCHANGED <<runVars, temp_dir, failure, analyzerVars, selectVars, travVars,
                   response, json_match, llmVars>>

\* lines 147-151: the whole response is parsed
ParseWhole ==
    /\ pc = "rc_whole"
    /\ tiers' = Append(tiers, "whole")
    /\ \E r \in {AfterLoads(JsonLoads(response))} :
          pc' = r.next /\ rc_result' = r.result
    /\ UNCHANGED <<runVars, temp_dir, failure, analyzerVars, selectVars, travVars,
                   response, json_match, llmVars>>

\* lines 153-156: _extract_files_manually(response)
ExtractManually ==
    /\ pc = "rc_manual"
    /\ tiers' = Append(tiers, "manual")
    /\ rc_result' = ExtractFilesManually(response)
    /\ pc' = "rc_returned"
    /\ UNCHANGED <<runVars, temp_dir, failure, analyzerVars, selectVars, travVars,
                   response, json_match, llmVars>>

\* llm.py lines 94, 122: _call_*_api returns what _extract_modified_files gave
ApiReturn ==
    /\ pc = "rc_returned"
    /\ api = "replied"
    /\ modified_files' = rc_result
    /\ pc' = "save"
    /\ UNCHANGED <<runVars, temp_dir, failure, analyzerVars, selectVars, travVars, rcVars,
                   files_dict, api, saved>>

\* llm.py lines 101-103, 129-131: an exception of _extract_modified_files is
\* caught like one of the call
ApiCatch ==
    /\ pc = "rc_raised"
    /\ api = "replied"
    /\ api' = "exception"
    /\ modified_files' = EmptyDict
    /\ pc' = "save"
    /\ UNCHANGED <<runVars, temp_dir, failure, analyzerVars, selectVars, travVars, rcVars,
                   files_dict, saved>>

\* whether _save_results can write v: a dict whose values are strings
Writable(v) ==
    v.t = "obj" /\ \A i \in 1..Len(v.items) : v.items[i][2].t = "str"

\* line 57: no output_dir configured
SaveSkip ==
    /\ pc = "save"
    /\ pc' = "cleanup"
    /\ UNCHANGED <<runVars, temp_dir, failure, analyzerVars, selectVars, travVars, rcVars,
                   llmVars>>

\* lines 57-60, _save_results writes every file
SaveOk ==
    /\ pc = "save"
    /\ Writable(modified_files)
    /\ saved' = modified_files
    /\ pc' = "cleanup"
    /\ UNCHANGED <<runVars, temp_dir, failure, analyzerVars, selectVars, travVars, rcVars,
                   files_dict, api, modified_files>>

\* _save_results raises (the output directory or a file cannot be written,
\* or modified_files is no dict of strings); lines 67-69 raise again
SaveFail ==
    /\ pc = "save"
    /\ failure' = "save"
    /\ pc' = "raised"
    /\ UNCHANGED <<runVars, temp_dir, analyzerVars, selectVars, travVars, rcVars, llmVars>>

\* line 63, GitHubRepo.cleanup removes the clone; line 65 returns modified_files
Cleanup ==
    /\ pc = "cleanup"
    /\ temp_dir' = "deleted"
    /\ pc' = "returned"
    /\ UNCHANGED <<runVars, failure, analyzerVars, selectVars, travVars, rcVars, llmVars>>

\* line 63: shutil.rmtree raises; lines 67-69 raise again
CleanupFail ==
    /\ pc = "cleanup"
    /\ failure' = "cleanup"
    /\ pc' = "raised"
    /\ UNCHANGED <<runVars, temp_dir, analyzerVars, selectVars, travVars, rcVars, llmVars>>

(***************************************************************************)
(* The raw texts of the backend.                                           *)
(***************************************************************************)
\* json.dumps of a string: the escapes of ", \ and the control characters
RECURSIVE EscapeJson(_)
EscapeJson(s) ==
    IF s = "" THEN ""
    ELSE LET c == Ch(s, 1)
             e == IF c = "\"" THEN "\\\""
                  ELSE IF c = "\\" THEN "\\\\"
                  ELSE IF c = "\n" THEN "\\n"
                  ELSE IF c = "\t" THEN "\\t"
                  ELSE c
         IN  e \o EscapeJson(SubSeq(s, 2, Len(s)))

\* json.dumps of a mapping given as <<path, content>> pairs
RECURSIVE DumpMembers(_)
DumpMembers(m) ==
    IF m = <<>> THEN ""
    ELSE "\"" \o EscapeJson(m[1][1]) \o "\": \"" \o EscapeJson(m[1][2]) \o "\""
            \o (IF Len(m) > 1 THEN ", " ELSE "") \o DumpMembers(Tail(m))

Serialize(m) == "{" \o DumpMembers(m) \o "}"

\* the mapping m as the dict json.loads builds
DictOf(m) ==
    JsonValue("obj", "", [i \in 1..Len(m) |-> <<m[i][1], JsonValue("str", m[i][2], <<>>)>>])

\* path-to-content mappings a reply may carry
Mappings ==
    { <<>>,
      << <<"a.tf", "content-A">> >>,
      << <<"a.tf", "content-A">>, <<"b.tf", "content-B">> >>,
      << <<"mod/a.tf", "name = \"x\"\n# C:\\tf\n">> >>,
      << <<"a.tf", "# see ~~~hcl\nx = 1\n">> >> }

BeforeBlock == {"", "Here are the files:\n", "--- File: c.tf ---\nOLD\n\n"}
AfterBlock == {"", "\nDone.\n", "\n--- File: c.tf ---\nNEW\n"}

\* a reply with the mapping m in a fenced block between the texts pre and post
FencedReply(pre, m, post) == pre \o JsonFence \o "\n" \o Serialize(m) \o "\n" \o Fence \o post

FencedReplies ==
    {FencedReply(pre, m, post) : pre \in BeforeBlock, m \in Mappings, post \in AfterBlock}

SectionPaths == {"a.tf", "mod/b-1.tf", "my file.tf"}
SectionContents == {"HELLO", "  x = 1\n---\n  y = 2  \n"}

\* the sections of a reply: up to MaxSections <<path, content>> pairs with
\* distinct paths
SectionLists ==
    LET one == SectionPaths \X SectionContents
    IN  {l \in UNION {[1..n -> one] : n \in 1..MaxSections} :
            \A i, j \in DOMAIN l : l[i][1] = l[j][1] => i = j}

\* the reply made of the sections of l, each under its marker line
RECURSIVE SectionReply(_)
SectionReply(l) ==
    IF l = <<>> THEN ""
    ELSE "--- File: " \o l[1][1] \o " ---\n" \o l[1][2] \o "\n" \o SectionReply(Tail(l))

SectionReplies == {SectionReply(l) : l \in SectionLists}

OtherReplies ==
    { "", "I cannot help with that.", "42", "null", "[\"a.tf\"]", "\"a.tf\"",
      "{\"a.tf\": 1}", "{\"a.tf\": {\"content\": \"x\"}}", "{\"a.tf\": \"x\"}",
      "~~~json\n42\n~~~", "~~~json\n[]\n~~~", "~~~json\nnot json\n~~~",
      "~~~json\n{\"a.tf\": \"x\",}\n~~~\n--- File: a.tf ---\nHELLO\n",
      "--- File: a.tf ---\nHELLO\n--- File: b.tf ---\nWORLD" }

RawTexts == FencedReplies \cup SectionReplies \cup OtherReplies

\* the replies of the backend in the runs followed to their end
BackendReplies ==
    { "~~~json\n{\"a.tf\": \"content-A\"}\n~~~",
      "--- File: a.tf ---\nHELLO\n--- File: b.tf ---\nWORLD",
      "[\"a.tf\"]",
      "42" }


\* the steps of find_relevant_files
Select ==
    \/ MatchPass
    \/ StartTraversal
    \/ TraverseSkip
    \/ TraverseDescend
    \/ TraverseReturn
    \/ TraversalDone
    \/ FinishSelection

\* the steps of _extract_modified_files
Extract ==
    \/ SearchFence
    \/ ParseBlock
    \/ ParseWhole
    \/ ExtractManually

Next ==
    \/ Enhance(RunCorpora)
    \/ CloneOk
    \/ CloneFail
    \/ Load
    \/ Select
    \/ SendToLLM
    \/ ApiImportError
    \/ ApiError
    \/ ApiReply(BackendReplies)
    \/ Extract
    \/ ApiReturn
    \/ ApiCatch
    \/ SaveSkip
    \/ SaveOk
    \/ SaveFail
    \/ Cleanup
    \/ CleanupFail

\* A whole run of enhance_terraform_code.
Spec == Init /\ [][Next]_vars

NextSelect ==
    \/ Enhance(Corpora)
    \/ CloneOk
    \/ Load
    \/ Select
    \/ SendToLLM

\* A run up to the call of update_terraform_code, over the larger corpora.
SelectSpec == Init /\ [][NextSelect]_vars

\* the steps of _find_all_dependencies
Traverse == TraverseSkip \/ TraverseDescend \/ TraverseReturn \/ TraversalDone

\* The run is one thread that executes statement after statement: a
\* traversal that can take a step takes it.
FairSelectSpec == SelectSpec /\ WF_vars(Traverse)

NextReconcile ==
    \/ Reconcile(RawTexts)
    \/ Extract

\* _extract_modified_files applied to each raw text.
ReconcileSpec == Init /\ [][NextReconcile]_vars

(***************************************************************************)
(* Claims.                                                                 *)
(***************************************************************************)
Min(a, b) == IF a <= b THEN a ELSE b

Selected == pc = "selected"

\* C1, as stated: for every non-empty corpus find_relevant_files returns at
\* least min(3, number of corpus files) entries.
C1_MinCoverageOfCorpus ==
    (Selected /\ file_contents # <<>>)
        => Cardinality(DOMAIN relevant_files) >= Min(3, Len(file_contents))

ImportantNamed == {k \in KeySet(file_contents) : IsImportant(k)}

\* C1, amended: find_relevant_files returns at least min(3, n) entries, n
\* being the number of corpus files whose path ends in main.tf, variables.tf
\* or outputs.tf; every entry is a corpus file.
C1_MinCoverageOfImportant ==
    Selected =>
        /\ Cardinality(DOMAIN relevant_files) >= Min(3, Cardinality(ImportantNamed))
        /\ DOMAIN relevant_files \subseteq KeySet(file_contents)

\* C1 witness: the fallback added a file that no pass had selected, to a
\* result that two passes had left with two entries.
C1_FallbackApplied ==
    /\ Selected
    /\ Cardinality(Range(keys) \cup DOMAIN dependency_files) = 2
    /\ Cardinality(DOMAIN relevant_files) = 3
    /\ Cardinality(ImportantNamed) = 3

\* C2: a traversal started from any file ends, and while it runs no file
\* has its edges followed more than once.
C2_TraversalTerminates ==
    /\ [](\A f \in DOMAIN expanded : expanded[f] <= 1)
    /\ (pc = "traverse") ~> (pc = "deps")

HasDuplicates(seq) == \E i, j \in 1..Len(seq) : i # j /\ seq[i] = seq[j]

\* C2 witness: a finished traversal that went through a two-file cycle, a
\* self-edge and a duplicated edge.
C2_CyclicTraversalDone ==
    /\ pc = "deps"
    /\ ki > 1
    /\ {"app/main.tf", "variables.tf", "network/vpc.tf"} \subseteq visited
    /\ HasDuplicates(dependency_graph["app/main.tf"])
    /\ "network/vpc.tf" \in Range(dependency_graph["network/vpc.tf"])
    /\ "network/vpc.tf" \in Range(dependency_graph["variables.tf"])
    /\ "variables.tf" \in Range(dependency_graph["network/vpc.tf"])

\* C7: app/main.tf declares module source "../network": the graph has an
\* edge from it to every corpus file under network/, and once a match pass
\* selected app/main.tf all of them are in the result.
C7_ModuleSourceFollowed ==
    \A i \in 1..Len(file_contents) :
        (/\ file_contents[i][1] = "app/main.tf"
         /\ Contains(file_contents[i][2], "source = \"../network\""))
        => \A f \in KeySet(file_contents) :
              StartsWith(f, "network/") =>
                 /\ f \in Range(dependency_graph["app/main.tf"])
                 /\ (Selected /\ "app/main.tf" \in Range(keys)) => f \in DOMAIN relevant_files

\* C7 witness: network/x.tf is in the result for a prompt that neither its
\* content nor its path matches.
C7_UnrelatedNetworkFileSelected ==
    /\ Selected
    /\ prompt = "add encryption"
    /\ "app/main.tf" \in Range(keys)
    /\ "network/x.tf" \in DOMAIN relevant_files
    /\ "network/x.tf" \notin Range(keys)

SecondaryKeywords == {"vpc", "subnet", "cidr", "network", "route", "gateway"}

\* C8: when the prompt contains "vpc" or "network" in any case, every
\* corpus file whose content or path contains a secondary networking keyword
\* in any case is in the result.
C8_DomainAugmentation ==
    (/\ Selected
     /\ Contains(ToLower(prompt), "vpc") \/ Contains(ToLower(prompt), "network"))
    => \A i \in 1..Len(file_contents) :
          (\E w \in SecondaryKeywords :
              \/ Contains(ToLower(file_contents[i][2]), w)
              \/ Contains(ToLower(file_contents[i][1]), w))
          => file_contents[i][1] \in DOMAIN relevant_files

\* C8 witness: misc/sub.tf, whose only networking word is "Subnet", is the
\* whole corpus and is selected for "Harden the VPC", whose one keyword is vpc.
C8_SubnetFileSelected ==
    /\ Selected
    /\ prompt = "Harden the VPC"
    /\ DictKeys(file_contents) = <<"misc/sub.tf">>
    /\ ExtractKeywordsFromPrompt(prompt) = <<"vpc">>
    /\ DirectMatch(file_contents, prompt) = <<>>
    /\ DOMAIN relevant_files = {"misc/sub.tf"}

\* the files reachable from the files of S by zero or more edges of g
RECURSIVE ReachClosure(_, _)
ReachClosure(g, S) ==
    LET more == S \cup UNION {Range(g[f]) : f \in S \cap DOMAIN g}
    IN  IF more = S THEN S ELSE ReachClosure(g, more)

\* the files reachable from f by one or more edges
ReachableFrom(g, f) == ReachClosure(g, Range(g[f]))

\* C10: every corpus file reachable by one or more edges from a file the
\* match passes selected is in the result.
C10_ClosureComplete ==
    Selected =>
        \A f \in Range(keys) :
            ReachableFrom(dependency_graph, f) \cap KeySet(file_contents)
                \subseteq DOMAIN relevant_files

\* C10 witness: network/vpc.tf is in the result only because misc/sub.tf,
\* the one matched file, reaches it through variables.tf, which lies on a
\* cycle with it.
C10_IndirectThroughCycle ==
    /\ Selected
    /\ keys = <<"misc/sub.tf">>
    /\ "network/vpc.tf" \in DOMAIN relevant_files
    /\ "network/vpc.tf" \notin Range(dependency_graph["misc/sub.tf"])
    /\ "network/vpc.tf" \in Range(dependency_graph["variables.tf"])
    /\ "variables.tf" \in Range(dependency_graph["network/vpc.tf"])

\* C3, as stated: _extract_modified_files never leaves by an exception,
\* whatever the raw text.
C3_ReconcileNeverRaises == pc # "rc_raised"

Returned == pc = "rc_returned"
Finished == pc \in {"rc_returned", "rc_raised"}

\* C4, as stated: when the raw text holds a fenced block whose inner text is
\* the serialization of a mapping, _extract_modified_files returns that
\* mapping, whatever text stands before and after the block.
C4_FencedRoundTrip ==
    \A pre \in BeforeBlock, m \in Mappings, post \in AfterBlock :
        (Finished /\ response = FencedReply(pre, m, post))
            => (Returned /\ rc_result = DictOf(m))

\* what C5 expects of the sections of l: one entry per section, path and
\* content trimmed
SectionsOf(l) ==
    JsonValue("obj", "",
              [i \in 1..Len(l) |-> <<Strip(l[i][1]), JsonValue("str", Strip(l[i][2]), <<>>)>>])

\* C5, as stated: a raw text without a structured block, made of sections
\* under "--- File: <path> ---" markers, gives one entry per section: the
\* trimmed path mapped to the trimmed text up to the next marker or the end.
C5_ManualSections ==
    \A l \in SectionLists :
        (Finished /\ response = SectionReply(l))
            => (Returned /\ rc_result = SectionsOf(l))

BackendFailed == api \in {"import_error", "exception"}

C9_WholeCorpusWhenNoneSelected ==
    pc = "api" =>
        /\ DOMAIN relevant_files = {} => files_dict = AsMap(file_contents)
        /\ file_contents # <<>> => DOMAIN files_dict # {}
        /\ \A k \in DOMAIN files_dict :
              k \in KeySet(file_contents) /\ files_dict[k] = DictGet(file_contents, k)

\* C9 witness: nothing was selected from a corpus of two files, and both
\* went to update_terraform_code.
C9_EmptySelectionSendsAll ==
    /\ pc = "api"
    /\ DOMAIN relevant_files = {}
    /\ Len(file_contents) = 2
    /\ DOMAIN files_dict = KeySet(file_contents)

\* C11, as stated: whatever _extract_modified_files returns is a mapping from
\* path strings to content strings.
C11_ResultIsFileMapping == Returned => Writable(rc_result)

\* the text the structured parse was given: the fenced block when one was
\* found, the whole response otherwise
ParsedText == IF json_match.ok THEN json_match.group ELSE response

Tried(tier) == tier \in Range(tiers)

\* C12: once _extract_modified_files has ended, the whole text was parsed
\* exactly when no fenced block was found, the manual extraction ran exactly
\* when the structured parse that was tried failed, the tiers ran in their
\* order with nothing after a success, and a manual extraction that found no
\* section returned the empty mapping.
C12_TierOrder ==
    Finished =>
        /\ Tried("whole") <=> ~json_match.ok
        /\ Tried("block") <=> json_match.ok
        /\ Tried("manual") <=> ~JsonLoads(ParsedText).ok
        /\ tiers \in {<<"fence", "block">>, <<"fence", "block", "manual">>,
                      <<"fence", "whole">>, <<"fence", "whole", "manual">>}
        /\ ~Tried("manual") => (Returned => rc_result = JsonLoads(ParsedText).val)
        /\ (Tried("manual") /\ SectionsFrom(response, 1, <<>>) = <<>>)
              => (Returned /\ rc_result = EmptyDict)

\* C12 witness: a fenced block that is no valid JSON, followed by a section:
\* the block was parsed, the whole text was not, and the manual extraction
\* returned the section.
C12_BlockFailedThenManual ==
    /\ Returned
    /\ tiers = <<"fence", "block", "manual">>
    /\ json_match.ok
    /\ ~JsonLoads(json_match.group).ok
    /\ rc_result = DictOf(<< <<"a.tf", "HELLO">> >>)

\* C13, as stated: the graph _build_dependency_graph builds has no edge from
\* a file to itself.
C13_NoSelfEdges ==
    \A f \in DOMAIN dependency_graph : f \notin Range(dependency_graph[f])

\* C14, as stated: when a run that created the clone directory has ended,
\* by returning or by raising, the directory is deleted.
C14_CloneDeletedAtEnd ==
    (pc \in {"returned", "raised"} /\ temp_dir # "none") => temp_dir = "deleted"
====
